---- MODULE Spec2Model ----
(***************************************************************************)
(* Model of the buuk-workflows CI scripts:                                 *)
(*   - scripts/coverage-calculator.js  (coverage aggregation and the gate) *)
(*   - scripts/pr-commenter.js         (create-or-update of a PR comment)  *)
(*                                                                         *)
(* Strings are modelled as sequences of tokens (a token stands for a run   *)
(* of characters); includes / endsWith are the contiguous-subsequence and  *)
(* suffix tests on those sequences.  An optional value (a command-line     *)
(* option that getArgValue may return as null) is None or Some(string).    *)
(***************************************************************************)
EXTENDS Integers, Sequences, FiniteSets, TLC

VARIABLES
    \* ---- coverage-calculator.js: the environment of one invocation
    covFile,              \* "ok" | "missing" | "unparseable": the --coverage-file on disk
    coverage,             \* the parsed coverage map: Object.values order, entries [path, hasS, s]
    gitOk,                \* FALSE when git fetch / git diff throws
    diffOutput,           \* lines printed by git diff --name-only, in git's order
    onDisk,               \* the paths of the diff that fs.existsSync finds
    mode,                 \* [global, changedFiles]: the --global / --changed-files flags
    configuredThreshold,  \* the coverage-threshold the workflow is configured with
    \* ---- coverage-calculator.js: the invocation
    cpc,                  \* position in main(): "start" | "loaded" | "resolved" | "exited"
    changedFiles,         \* what getChangedFiles returned
    result,               \* what calculateChangedFilesCoverage returned
    stdout,               \* what main printed
    covExit,              \* exit status (-1 while running)
    \* ---- pr-commenter.js
    comments,             \* the pull request's comment list, owned by the hosting API
    nextId,               \* the id the API gives the next created comment
    run,                  \* per invocation: position, options, commentData, API calls
                          \* (each with the API's comment counter when it was answered)
    history,              \* finished invocations, oldest first
    inflight,             \* PATCH / POST requests sent and not yet handled by the API
    \* ---- integration-test-runner.js
    itr                   \* one invocation: its inputs, position, what it did, exit status

covVars == <<covFile, coverage, gitOk, diffOutput, onDisk, mode, configuredThreshold,
             cpc, changedFiles, result, stdout, covExit>>
prVars == <<comments, nextId, run, history, inflight>>
itVars == <<itr>>
vars == <<covVars, prVars, itVars>>

-----------------------------------------------------------------------------
(* Bounds of the model *)

MaxEntries == 2      \* entries in a coverage map
MaxDiff == 2         \* lines of git diff output
MaxRuns == 2         \* serial pr-commenter invocations on one pull request

-----------------------------------------------------------------------------
(* Strings and optional values *)

None == <<>>
Some(s) == <<s>>
\* JavaScript truthiness of a string-or-null: null and "" are falsy
Truthy(o) == o # None /\ o[1] # <<>>
\* String(null) is "null": what String.prototype.includes does with a null argument
ToStr(o) == IF o = None THEN <<"null">> ELSE o[1]

EndsWith(str, suffix) ==
    /\ Len(suffix) <= Len(str)
    /\ SubSeq(str, Len(str) - Len(suffix) + 1, Len(str)) = suffix

StartsWith(str, prefix) ==
    /\ Len(prefix) <= Len(str)
    /\ SubSeq(str, 1, Len(prefix)) = prefix

Includes(str, needle) ==
    \E i \in 0..(Len(str) - Len(needle)) : SubSeq(str, i + 1, i + Len(needle)) = needle

\* the integration test runner before it runs, with a command line and environment:
\* args (any argument given), ci (CI set), dbUrl ("none" | "valid" | "invalid": the
\* --database-url / TEST_DATABASE_URL), find (what the find pipeline would yield),
\* probeOk (pg_isready would succeed), child (how a spawned jest would end: "code0",
\* "code1" for a non-zero code, "signal" for a close with code null, "error" for a
\* failed spawn); and what the invocation did: searched for test files and how many
\* it found, ran the probe, started the tests, the summary file it wrote
IdleRunner ==
    [pc |-> "start", args |-> TRUE, ci |-> TRUE, dbUrl |-> "valid", find |-> "found",
     probeOk |-> TRUE, child |-> "code0", searched |-> FALSE, testFiles |-> 0,
     probed |-> FALSE, started |-> FALSE, summary |-> "none", exit |-> -1]

\* sequences over S of length at most n without repeated elements
RECURSIVE DistinctSeqs(_, _)
DistinctSeqs(S, n) ==
    IF n = 0 THEN {<<>>}
    ELSE LET shorter == DistinctSeqs(S, n - 1)
             longest == {q \in shorter : Len(q) = n - 1}
         IN shorter \cup
            UNION {{Append(q, x) : x \in {y \in S : \A i \in 1..Len(q) : q[i] # y}} :
                      q \in longest}

-----------------------------------------------------------------------------
(* coverage-calculator.js *)

Threshold == 20          \* the literal of main's gate
DefaultThreshold == 20   \* generateMarkdownReport's default parameter

\* options.filePatterns and options.sourceDir (their defaults)
FilePatterns == {".ts", ".tsx", ".js", ".jsx"}
SourceDir == "src/"

\* process.cwd(), and path.resolve of a repository-relative path
Cwd == <<"/w/">>
Resolve(file) == Cwd \o file

FileA == <<"src/", "a", ".ts">>
FileB == <<"src/", "b", ".ts">>
DiffPaths == {FileA, FileB, <<"lib/", "a", ".ts">>, <<"src/", "a", ".md">>}
EntryPaths == {Resolve(FileA), <<"/ci/">> \o FileA, Resolve(FileB)}

Stmts8of10 == <<1, 1, 3, 1, 1, 2, 1, 1, 0, 0>>
Stmts2of5 == <<1, 0, 2, 0, 0>>
\* 23 of 160 statements hit: 14.375 per cent, halfway between two hundredths
Stmts23of160 == [i \in 1..160 |-> IF i <= 23 THEN 1 ELSE 0]
StatementCounts == {<<>>, <<0>>, <<4, 0, 0, 0, 0>>, Stmts2of5, Stmts8of10}

Entries ==
    {[path |-> p, hasS |-> TRUE, s |-> st] : p \in EntryPaths, st \in StatementCounts}
    \cup {[path |-> p, hasS |-> FALSE, s |-> <<>>] : p \in EntryPaths}

\* coverage maps: the keys of the file are the entries' paths, so no path repeats;
\* and the map of one file with 23 of 160 statements hit
CoverageMaps ==
    {c \in DistinctSeqs(Entries, MaxEntries) :
        \A i, j \in 1..Len(c) : c[i].path = c[j].path => i = j}
    \cup {<<[path |-> Resolve(FileB), hasS |-> TRUE, s |-> Stmts23of160]>>}

DiffOutputs == DistinctSeqs(DiffPaths, MaxDiff)

\* the string 'N/A' and the strings toFixed(2) produces, as [na, whole, frac]
NA == [na |-> TRUE, whole |-> 0, frac |-> 0]
Fixed2(hundredths) == [na |-> FALSE, whole |-> hundredths \div 100, frac |-> hundredths % 100]
\* IEEE 754 double arithmetic on binary numerals (sequences of bits, most significant
\* first, no leading zero).  A double is [m, e]: a significand m of 53 bits and the
\* value m * 2^e.
BitLength(n) == Cardinality({i \in 0..29 : 2^i <= n})
ToBits(n) == [i \in 1..BitLength(n) |-> (n \div 2^(BitLength(n) - i)) % 2]
Zeros(n) == [i \in 1..n |-> 0]

\* the numeral of bits * k: digit by digit from the right, carry[i] going into
\* position i
Times(bits, k) ==
    LET n == Len(bits)
        carry[i \in 0..n] == IF i = n THEN 0 ELSE (bits[i + 1] * k + carry[i + 1]) \div 2
    IN ToBits(carry[0]) \o [i \in 1..n |-> (bits[i] * k + carry[i]) % 2]

Increment(bits) ==
    LET zeros == {i \in 1..Len(bits) : bits[i] = 0}
    IN IF zeros = {} THEN <<1>> \o Zeros(Len(bits))
       ELSE LET last == CHOOSE i \in zeros : \A j \in zeros : j <= i
            IN [i \in 1..Len(bits) |-> IF i < last THEN bits[i]
                                        ELSE IF i = last THEN 1 ELSE 0]

LessThan(a, b) ==
    \/ Len(a) < Len(b)
    \/ /\ Len(a) = Len(b)
       /\ \E i \in 1..Len(a) : a[i] < b[i] /\ \A j \in 1..(i - 1) : a[j] = b[j]

\* round bits * 2^e (54 bits or more; inexact: bits had a remainder cut off) to a
\* double: to the nearest, a tie to the even significand
RoundToDouble(bits, e, inexact) ==
    LET cut == Len(bits) - 53
        kept == SubSeq(bits, 1, 53)
        sticky == inexact \/ \E i \in 55..Len(bits) : bits[i] = 1
        up == bits[54] = 1 /\ (sticky \/ kept[53] = 1)
        m == IF up THEN Increment(kept) ELSE kept
    IN IF Len(m) = 54 THEN [m |-> SubSeq(m, 1, 53), e |-> e + cut + 1]
       ELSE [m |-> m, e |-> e + cut]

\* the position before the first 1 in the binary expansion of r / t (0 < r < t)
RECURSIVE LeadingZeros(_, _)
LeadingZeros(r, t) == IF 2 * r >= t THEN 0 ELSE 1 + LeadingZeros(2 * r, t)

\* the first n bits of the binary expansion of r / t (r < t) by long division, and
\* the remainder left after them
QuotientBits(r, t, n) ==
    LET rest[i \in 0..n] == IF i = 0 THEN r ELSE (2 * rest[i - 1]) % t
    IN [bits |-> [i \in 1..n |-> (2 * rest[i - 1]) \div t], rem |-> rest[n]]

\* the double covered / total, for 0 < covered < total
DoubleQuotient(covered, total) ==
    LET z == LeadingZeros(covered, total)
        q == QuotientBits(covered * 2^z, total, 54)
    IN RoundToDouble(q.bits, 0 - (z + 54), q.rem # 0)

\* the double x * 100
DoubleTimes100(x) == RoundToDouble(Times(x.m, 100), x.e, FALSE)

\* the double y is less than the rational 100 * covered / total
BelowExact(y, covered, total) ==
    LessThan(Times(y.m, total), ToBits(100 * covered) \o Zeros(0 - y.e))

\* ((covered / total) * 100).toFixed(2): the number of hundredths nearest to the
\* double (covered / total) * 100, the larger one when the double lies halfway.
\* The double is within 2^-45 of the exact 100 * covered / total.  When the exact
\* value is not halfway between two hundredths it is at least 1 / (200 * total) away
\* from halfway, so the double has the same nearest hundredth; when it is halfway,
\* the double is computed: below the exact value it goes down, else up.
ToFixed2(covered, total) ==
    LET scaled == covered * 10000
        hundredths == scaled \div total
        twiceRest == 2 * (scaled % total)
    IN IF twiceRest # total
       THEN Fixed2(IF twiceRest > total THEN hundredths + 1 ELSE hundredths)
       ELSE IF BelowExact(DoubleTimes100(DoubleQuotient(covered, total)), covered, total)
       THEN Fixed2(hundredths)
       ELSE Fixed2(hundredths + 1)
\* parseFloat(p) >= n: parseFloat('N/A') is NaN and NaN >= n is false
ParseFloatGE(p, n) == ~p.na /\ p.whole * 100 + p.frac >= n * 100

\* a filter that takes a statement with hit count 0 for covered
CoveredCount_ZeroIsCovered(s) == Len(SelectSeq(s, LAMBDA count : count >= 0))

\* statements.filter(count => count > 0).length
CoveredCount(s) == Len(SelectSeq(s, LAMBDA count : count > 0))

RECURSIVE GlobalLoop(_, _, _)
GlobalLoop(cov, i, acc) ==
    IF i > Len(cov) THEN acc
    ELSE GlobalLoop(cov, i + 1,
            IF cov[i].hasS
            THEN [total |-> acc.total + Len(cov[i].s),
                  covered |-> acc.covered + CoveredCount(cov[i].s)]
            ELSE acc)

ZeroPercentage == Fixed2(0)

calculateGlobalCoverage(cov) ==
    LET sums == GlobalLoop(cov, 1, [total |-> 0, covered |-> 0])
    IN IF sums.total > 0 THEN ToFixed2(sums.covered, sums.total) ELSE ZeroPercentage

\* a getChangedFiles that returns the filtered paths last to first
getChangedFiles_Reversed(ok, lines) ==
    IF ~ok THEN <<>>
    ELSE LET kept == SelectSeq(SelectSeq(lines, LAMBDA f : f[Len(f)] \in FilePatterns),
                               LAMBDA f : StartsWith(f, <<SourceDir>>))
         IN [i \in 1..Len(kept) |-> kept[Len(kept) + 1 - i]]

\* a getChangedFiles whose catch block still returns what the diff listed
getChangedFiles_KeepsLines(ok, lines) ==
    SelectSeq(SelectSeq(lines, LAMBDA f : f[Len(f)] \in FilePatterns),
              LAMBDA f : StartsWith(f, <<SourceDir>>))

\* grep -E '\.(ts|tsx|js|jsx)$' then grep '^src/' on git diff's lines, order kept
getChangedFiles(ok, lines) ==
    IF ~ok THEN <<>>
    ELSE LET byExt == SelectSeq(lines, LAMBDA f : f[Len(f)] \in FilePatterns)
         IN SelectSeq(byExt, LAMBDA f : StartsWith(f, <<SourceDir>>))

\* the predicate of Object.values(coverage).find(...)
MatchesEntry(data, file) == data.path = Resolve(file) \/ EndsWith(data.path, file)

RECURSIVE FindFrom(_, _, _)
FindFrom(cov, file, i) ==
    IF i > Len(cov) THEN 0
    ELSE IF MatchesEntry(cov[i], file) THEN i
    ELSE FindFrom(cov, file, i + 1)

\* index of the entry find returns for file, 0 for undefined
FindEntry(cov, file) == FindFrom(cov, file, 1)

\* the body of changedFiles.forEach, on the accumulators of the function
FileStep(cov, disk, file, acc) ==
    IF file \notin disk THEN acc
    ELSE LET k == FindEntry(cov, file)
         IN IF k # 0 /\ cov[k].hasS
            THEN LET fileCovered == CoveredCount(cov[k].s)
                     fileTotal == Len(cov[k].s)
                 IN [totalLines |-> acc.totalLines + fileTotal,
                     coveredLines |-> acc.coveredLines + fileCovered,
                     files |-> IF fileTotal > 0
                               THEN Append(acc.files,
                                      [file |-> file, covered |-> fileCovered,
                                       total |-> fileTotal,
                                       percentage |-> ToFixed2(fileCovered, fileTotal)])
                               ELSE acc.files,
                     noData |-> acc.noData]
            ELSE [acc EXCEPT !.noData = Append(@, file)]

RECURSIVE FilesLoop(_, _, _, _, _)
FilesLoop(cov, disk, files, i, acc) ==
    IF i > Len(files) THEN acc
    ELSE FilesLoop(cov, disk, files, i + 1, FileStep(cov, disk, files[i], acc))

calculateChangedFilesCoverage(cov, files, disk) ==
    IF Len(files) = 0
    THEN [percentage |-> NA, totalLines |-> 0, coveredLines |-> 0, files |-> <<>>,
          message |-> "No files changed", noData |-> <<>>]
    ELSE LET acc == FilesLoop(cov, disk, files, 1,
                       [totalLines |-> 0, coveredLines |-> 0, files |-> <<>>,
                        noData |-> <<>>])
             overall == IF acc.totalLines > 0
                        THEN ToFixed2(acc.coveredLines, acc.totalLines)
                        ELSE ZeroPercentage
         IN [percentage |-> overall, totalLines |-> acc.totalLines,
             coveredLines |-> acc.coveredLines, files |-> acc.files,
             message |-> "Overall coverage for changed files", noData |-> acc.noData]

\* the report, by its parts: the heading's percentage, Required, Actual, Status, and
\* either the per-file lines or the message line
generateMarkdownReport(cfc, threshold) ==
    LET thresholdMet == ParseFloatGE(cfc.percentage, threshold)
    IN [heading |-> cfc.percentage,
        required |-> threshold,
        actual |-> cfc.percentage,
        status |-> IF thresholdMet THEN "Passed" ELSE "Failed",
        details |-> IF Len(cfc.files) > 0 THEN cfc.files ELSE <<>>,
        message |-> IF Len(cfc.files) > 0 THEN "" ELSE cfc.message]

\* a gate that lets the percentage 'N/A' pass
GateThresholdMet_NAPasses(percentage) ==
    percentage = NA \/ ParseFloatGE(percentage, Threshold)

\* main's gate: result.percentage !== 'N/A' && parseFloat(result.percentage) >= 20
GateThresholdMet(percentage) == percentage # NA /\ ParseFloatGE(percentage, Threshold)

NoResult == [percentage |-> NA, totalLines |-> 0, coveredLines |-> 0, files |-> <<>>,
             message |-> "", noData |-> <<>>]
NoReport == [heading |-> NA, required |-> 0, actual |-> NA, status |-> "",
             details |-> <<>>, message |-> ""]
NoOutput == [kind |-> "none", globalCoverage |-> NA, changedCoverage |-> NA,
             report |-> NoReport, checkFailed |-> FALSE]

ConfiguredThresholds == {20, 70, 90}

\* a readCoverageFile that treats a missing file as an empty coverage map
readCoverageFile_MissingIsEmpty ==
    /\ cpc = "start"
    /\ IF covFile \in {"ok", "missing"}
       THEN cpc' = "loaded" /\ covExit' = covExit
       ELSE cpc' = "exited" /\ covExit' = 1
    /\ UNCHANGED <<covFile, coverage, gitOk, diffOutput, onDisk, mode,
                   configuredThreshold, changedFiles, result, stdout>>
    /\ UNCHANGED <<prVars, itVars>>

\* readCoverageFile: a missing or unparseable file ends the process with status 1
readCoverageFile ==
    /\ cpc = "start"
    /\ IF covFile = "ok"
       THEN cpc' = "loaded" /\ covExit' = covExit
       ELSE cpc' = "exited" /\ covExit' = 1
    /\ UNCHANGED <<covFile, coverage, gitOk, diffOutput, onDisk, mode,
                   configuredThreshold, changedFiles, result, stdout>>
    /\ UNCHANGED <<prVars, itVars>>

\* main, --global: print the global percentage and return
mainGlobal ==
    /\ cpc = "loaded"
    /\ mode.global
    /\ stdout' = [NoOutput EXCEPT !.kind = "global",
                                  !.globalCoverage = calculateGlobalCoverage(coverage)]
    /\ cpc' = "exited"
    /\ covExit' = 0
    /\ UNCHANGED <<covFile, coverage, gitOk, diffOutput, onDisk, mode,
                   configuredThreshold, changedFiles, result>>
    /\ UNCHANGED <<prVars, itVars>>

\* main, --changed-files: const changedFiles = getChangedFiles()
mainGetChangedFiles ==
    /\ cpc = "loaded"
    /\ ~mode.global
    /\ mode.changedFiles
    /\ changedFiles' = getChangedFiles(gitOk, diffOutput)
    /\ cpc' = "resolved"
    /\ UNCHANGED <<covFile, coverage, gitOk, diffOutput, onDisk, mode,
                   configuredThreshold, result, stdout, covExit>>
    /\ UNCHANGED <<prVars, itVars>>

\* main, --changed-files: aggregate, print the outputs, the report and the gate flag
mainChangedFiles ==
    /\ cpc = "resolved"
    /\ LET r == calculateChangedFilesCoverage(coverage, changedFiles, onDisk)
       IN /\ result' = r
          /\ stdout' = [kind |-> "changed",
                        globalCoverage |-> NA,
                        changedCoverage |-> r.percentage,
                        report |-> generateMarkdownReport(r, DefaultThreshold),
                        checkFailed |-> ~GateThresholdMet(r.percentage)]
    /\ cpc' = "exited"
    /\ covExit' = 0
    /\ UNCHANGED <<covFile, coverage, gitOk, diffOutput, onDisk, mode,
                   configuredThreshold, changedFiles>>
    /\ UNCHANGED <<prVars, itVars>>

\* main with neither flag: print the usage text and return
mainUsage ==
    /\ cpc = "loaded"
    /\ ~mode.global
    /\ ~mode.changedFiles
    /\ stdout' = [NoOutput EXCEPT !.kind = "usage"]
    /\ cpc' = "exited"
    /\ covExit' = 0
    /\ UNCHANGED <<covFile, coverage, gitOk, diffOutput, onDisk, mode,
                   configuredThreshold, changedFiles, result>>
    /\ UNCHANGED <<prVars, itVars>>

-----------------------------------------------------------------------------
(* pr-commenter.js *)

Procs == {1, 2}

CoverageTitle == <<"Test Coverage Report">>
E2ETitle == <<"E2E Test Results">>
BuildTitle == <<"Build & Lint Results">>

CoverageIdentifier == <<"test-coverage">>
E2EIdentifier == <<"e2e-tests">>
BuildIdentifier == <<"build-lint">>
Identifiers == {CoverageIdentifier, E2EIdentifier, BuildIdentifier}

ValidTypes == {<<"coverage">>, <<"e2e">>, <<"build">>}

\* --details: not given, or a JSON text that parses (to an object with the two
\* optional fields the generators read) or does not
NoDetails == [given |-> FALSE, valid |-> TRUE, testDetails |-> None, buildDetails |-> None]
BadJson == [given |-> TRUE, valid |-> FALSE, testDetails |-> None, buildDetails |-> None]
SomeDetails == [given |-> TRUE, valid |-> TRUE,
                testDetails |-> Some(<<"2", "specs", "failed">>),
                buildDetails |-> Some(<<"tsc", "failed">>)]

\* value || fallback
OrElse(o, fallback) == IF Truthy(o) THEN o[1] ELSE fallback

generateCoverageComment(globalCoverage, changedCoverage, coverageDetails) ==
    [title |-> CoverageTitle,
     body |-> <<"##">> \o CoverageTitle
              \o <<"### Global Coverage", "Coverage after merging this PR will be">>
              \o OrElse(globalCoverage, <<"N/A">>)
              \o <<"%", "### Changed Files Coverage">>
              \o OrElse(coverageDetails, <<"No coverage details available">>)
              \o <<"---", "Note: The build requires 20% coverage for changed files only">>,
     identifier |-> CoverageIdentifier]

generateE2EComment(status, details) ==
    LET statusText == IF status = <<"failure">> THEN <<"Failed">>
                      ELSE IF status = <<"warning">> THEN <<"Warning">>
                      ELSE <<"Passed">>
        testDetails == OrElse(details.testDetails, <<"All E2E tests passed successfully!">>)
        artifacts == IF status = <<"failure">>
                     THEN <<"### Test artifacts available in the Actions tab">>
                     ELSE <<>>
    IN [title |-> E2ETitle,
        body |-> <<"##">> \o E2ETitle \o <<"**Status:**">> \o statusText
                 \o <<"**Details:**">> \o testDetails
                 \o <<"### Test Environment">> \o artifacts
                 \o <<"---", "Automated E2E testing">>,
        identifier |-> E2EIdentifier]

generateBuildComment(status, details) ==
    LET statusText == IF status = <<"failure">> THEN <<"Failed">>
                      ELSE IF status = <<"warning">> THEN <<"Warning">>
                      ELSE <<"Success">>
        buildDetails == OrElse(details.buildDetails,
                               <<"Build and linting completed successfully!">>)
    IN [title |-> BuildTitle,
        body |-> <<"##">> \o BuildTitle \o <<"**Status:**">> \o statusText
                 \o <<"**Details:**">> \o buildDetails
                 \o <<"### Build Environment", "---", "Automated build and code quality checks">>,
        identifier |-> BuildIdentifier]

\* the predicate of comments.find(...) in findExistingComment: options.title is
\* passed to includes as it is, null included
CommentMatches(comment, identifier, title) ==
    Includes(comment.body, identifier) \/ Includes(comment.body, ToStr(title))

RECURSIVE FindCommentFrom(_, _, _, _)
FindCommentFrom(cs, identifier, title, i) ==
    IF i > Len(cs) THEN 0
    ELSE IF CommentMatches(cs[i], identifier, title) THEN cs[i].id
    ELSE FindCommentFrom(cs, identifier, title, i + 1)

\* findExistingComment: the id of the first comment find selects, 0 for none; a
\* failed list call is caught and gives null
findExistingComment(ok, cs, identifier, title) ==
    IF ok THEN FindCommentFrom(cs, identifier, title, 1) ELSE 0

\* a validateOptions that forgets the PR_NUMBER check
validateOptions_NoPrNumber(opts, env) ==
    /\ opts.type # None
    /\ opts.type[1] \in ValidTypes
    /\ env.token /\ env.repo

\* validateOptions
validateOptions(opts, env) ==
    /\ opts.type # None
    /\ opts.type[1] \in ValidTypes
    /\ env.token /\ env.repo /\ env.pr

\* main's switch, then the --title and --body overrides
CommentData(opts) ==
    LET generated ==
            IF opts.type[1] = <<"coverage">>
            THEN generateCoverageComment(opts.globalCoverage, None, opts.coverageDetails)
            ELSE IF opts.type[1] = <<"e2e">>
            THEN generateE2EComment(opts.status, opts.details)
            ELSE generateBuildComment(opts.status, opts.details)
        titled == IF Truthy(opts.title) THEN [generated EXCEPT !.title = opts.title[1]]
                  ELSE generated
    IN IF Truthy(opts.body) THEN [titled EXCEPT !.body = opts.body[1]] ELSE titled

\* JSON.parse(details) throws in generateE2EComment / generateBuildComment
GeneratorThrows(opts) ==
    opts.type[1] \in {<<"e2e">>, <<"build">>} /\ opts.details.given /\ ~opts.details.valid

NoOptions == [type |-> None, status |-> <<"success">>, title |-> None, body |-> None,
              details |-> NoDetails, globalCoverage |-> None, coverageDetails |-> None]
NoCommentData == [title |-> <<>>, body |-> <<>>, identifier |-> <<>>]
FullEnv == [token |-> TRUE, repo |-> TRUE, pr |-> TRUE]

TitleOptions == {None, Some(CoverageTitle)}
BodyOptions == {None, Some(<<"custom", "body">>)}

\* the command lines tried: options a report kind does not read keep their defaults
Invocations ==
    {[NoOptions EXCEPT !.type = ty] : ty \in {None, Some(<<"bogus">>)}}
    \cup {[NoOptions EXCEPT !.type = Some(<<"coverage">>), !.title = ti, !.body = b,
                            !.globalCoverage = g] :
             ti \in TitleOptions, b \in BodyOptions, g \in {None, Some(<<"85.5">>)}}
    \cup {[NoOptions EXCEPT !.type = Some(ty), !.title = ti, !.body = b, !.status = st,
                            !.details = d] :
             ty \in {<<"e2e">>, <<"build">>}, ti \in TitleOptions, b \in BodyOptions,
             st \in {<<"success">>, <<"failure">>}, d \in {NoDetails, SomeDetails}}
    \cup {[NoOptions EXCEPT !.type = Some(ty), !.details = BadJson] :
             ty \in {<<"e2e">>, <<"build">>}}

Environments ==
    {FullEnv, [FullEnv EXCEPT !.token = FALSE], [FullEnv EXCEPT !.repo = FALSE],
     [FullEnv EXCEPT !.pr = FALSE]}

\* inv numbers the invocations in the order they start.  env and before are kept
\* for the properties: the environment the invocation was started with, and the
\* comment list at that moment
IdleRun == [pc |-> "idle", inv |-> 0, opts |-> NoOptions, env |-> FullEnv,
            commentData |-> NoCommentData, existing |-> 0, calls |-> <<>>, exit |-> -1,
            before |-> <<>>]

\* comments a person wrote on the pull request before any run
HumanComments ==
    {<<>>, <<[id |-> 1, body |-> <<"LGTM">>, createdFor |-> <<"human">>]>>}

\* a pull request before any run of the comment tool; no coverage tool runs
InitComment ==
    /\ comments \in HumanComments
    /\ nextId = Len(comments) + 1
    /\ run = [p \in Procs |-> IdleRun]
    /\ history = <<>>
    /\ inflight = {}
    /\ covFile = "ok"
    /\ coverage = <<>>
    /\ gitOk = TRUE
    /\ diffOutput = <<>>
    /\ onDisk = {}
    /\ mode = [global |-> FALSE, changedFiles |-> FALSE]
    /\ configuredThreshold = DefaultThreshold
    /\ cpc = "exited"
    /\ changedFiles = <<>>
    /\ result = NoResult
    /\ stdout = NoOutput
    /\ covExit = 0
    /\ itr = IdleRunner

\* what a finished invocation leaves in the history
HistoryEntry(r) ==
    [type |-> IF r.opts.type = None THEN <<>> ELSE r.opts.type[1],
     titled |-> r.opts.title # None,
     method |-> IF r.calls # <<>> /\ r.calls[Len(r.calls)].method # "GET"
                THEN r.calls[Len(r.calls)].method ELSE "none",
     failed |-> \E k \in 1..Len(r.calls) : r.calls[k].rejected,
     exit |-> r.exit]

Exited(r, status) == [r EXCEPT !.pc = "exited", !.exit = status]

\* an entry of an invocation's call log: ok when makeGitHubRequest resolved, rejected
\* when it rejected (neither while the request is awaited, or when the process ended
\* first); handled once the API has dealt with the request, applied when it took
\* effect, late when that was after the process had ended; at is the API's comment
\* counter when the request was answered or handled
GetCall(ok) ==
    [method |-> "GET", ok |-> ok, rejected |-> ~ok, id |-> 0, at |-> nextId,
     handled |-> TRUE, applied |-> FALSE, late |-> FALSE]
\* the PATCH of the comment found, else the POST, as it leaves the process
SentCall(existing) ==
    [method |-> IF existing # 0 THEN "PATCH" ELSE "POST", ok |-> FALSE,
     rejected |-> FALSE, id |-> existing, at |-> nextId,
     handled |-> FALSE, applied |-> FALSE, late |-> FALSE]
\* the request as it travels: the slot and the number of the invocation that sent
\* it, the id of the comment to PATCH (0 for a POST) and the comment data
Request(p, r, existing) ==
    [p |-> p, inv |-> r.inv, existing |-> existing, commentData |-> r.commentData]
\* the invocation's PATCH or POST has been sent and the API has not dealt with it
Pending(r) == \E q \in inflight : q.inv = r.inv

\* the invocations that are running
Running == {q \in Procs : run[q].pc \in {"list", "await"}}

\* main() of one invocation up to the list-comments request: validateOptions, the
\* generator of the report kind, the overrides.  process.exit(1) on a validation
\* failure or when the generator throws.  The process knows nothing of an earlier
\* invocation: a request that one left in flight stays in flight.
Start(p, opts, env) ==
    /\ run[p].pc \in {"idle", "exited"}
    /\ Len(history) + Cardinality(Running) < MaxRuns
    /\ LET fresh == [IdleRun EXCEPT !.inv = Len(history) + Cardinality(Running) + 1,
                                    !.opts = opts, !.env = env, !.before = comments]
       IN IF validateOptions(opts, env) /\ ~GeneratorThrows(opts)
          THEN /\ run' = [run EXCEPT ![p] = [fresh EXCEPT !.pc = "list",
                                                          !.commentData = CommentData(opts)]]
               /\ history' = history
          ELSE /\ run' = [run EXCEPT ![p] = Exited(fresh, 1)]
               /\ history' = Append(history, HistoryEntry(Exited(fresh, 1)))
    /\ UNCHANGED <<comments, nextId, inflight>>
    /\ UNCHANGED <<covVars, itVars>>

\* a lookup that deletes the comment it found, for the request to post it anew
List_DeletesFound(p, ok) ==
    /\ run[p].pc = "list"
    /\ LET r == run[p]
           found == findExistingComment(ok, comments, r.commentData.identifier,
                                        r.opts.title)
       IN /\ run' = [run EXCEPT ![p] =
                       [r EXCEPT !.pc = "await",
                                 !.existing = 0,
                                 !.calls = <<GetCall(ok), SentCall(0)>>]]
          /\ comments' = SelectSeq(comments, LAMBDA c : c.id # found)
          /\ inflight' = inflight \cup {Request(p, r, 0)}
    /\ UNCHANGED <<nextId, history>>
    /\ UNCHANGED <<covVars, itVars>>

\* a postOrUpdateComment without the else: after the PATCH of the comment found it
\* sends a POST of a new comment as well
List_PatchThenPost(p, ok) ==
    /\ run[p].pc = "list"
    /\ LET r == run[p]
           found == findExistingComment(ok, comments, r.commentData.identifier,
                                        r.opts.title)
       IN /\ run' = [run EXCEPT ![p] =
                       [r EXCEPT !.pc = "await",
                                 !.existing = 0,
                                 !.calls = IF found # 0
                                           THEN <<GetCall(ok), [SentCall(found) EXCEPT
                                                                  !.handled = TRUE],
                                                  SentCall(0)>>
                                           ELSE <<GetCall(ok), SentCall(0)>>]]
          /\ inflight' = inflight \cup {Request(p, r, 0)}
    /\ UNCHANGED <<comments, nextId, history>>
    /\ UNCHANGED <<covVars, itVars>>

\* postOrUpdateComment up to its second await.  The GET of the comment list answers
\* (or fails: findExistingComment catches that and returns null); in the same turn
\* of the event loop the process picks the comment to update and sends the PATCH of
\* it, or the POST of a new comment when it found none, and awaits the answer.
List(p, ok) ==
    /\ run[p].pc = "list"
    /\ LET r == run[p]
           found == findExistingComment(ok, comments, r.commentData.identifier,
                                        r.opts.title)
       IN /\ run' = [run EXCEPT ![p] =
                       [r EXCEPT !.pc = "await",
                                 !.existing = found,
                                 !.calls = <<GetCall(ok), SentCall(found)>>]]
          /\ inflight' = inflight \cup {Request(p, r, found)}
    /\ UNCHANGED <<comments, nextId, history>>
    /\ UNCHANGED <<covVars, itVars>>

\* an update that deletes the comment and posts its replacement under a new id
UpdateBody_DeleteAndRepost(cs, id, body) ==
    LET old == CHOOSE c \in {cs[i] : i \in 1..Len(cs)} : c.id = id
    IN Append(SelectSeq(cs, LAMBDA c : c.id # id),
              [id |-> nextId, body |-> body, createdFor |-> old.createdFor])

UpdateBody(cs, id, body) ==
    [i \in 1..Len(cs) |-> IF cs[i].id = id THEN [cs[i] EXCEPT !.body = body] ELSE cs[i]]

\* the comment list after the API applied the PATCH or POST r (the request, or the
\* invocation that sent it), a created comment getting the id
ApplyRequest(cs, id, r) ==
    IF r.existing # 0 THEN UpdateBody(cs, r.existing, r.commentData.body)
    ELSE Append(cs, [id |-> id, body |-> r.commentData.body,
                     createdFor |-> r.commentData.identifier])

\* the call log of the invocations after the API handled the request q: the entry
\* of the request is in the log of the invocation that sent it, unless the slot has
\* started another invocation since
Handled(q, method, applied, target) ==
    IF run[q.p].inv # q.inv THEN run
    ELSE [run EXCEPT ![q.p].calls[Len(run[q.p].calls)] =
            [@ EXCEPT !.method = method, !.handled = TRUE, !.applied = applied,
                      !.id = target, !.at = nextId,
                      !.late = (run[q.p].pc = "exited")]]

\* an API that applies a create only if the pull request still has no comment of
\* the identifier (the comment created meanwhile is patched instead)
Mutate_CreateIfAbsent(q, applied) ==
    /\ q \in inflight
    /\ LET same == {i \in 1..Len(comments) :
                      comments[i].createdFor = q.commentData.identifier}
           found == IF q.existing # 0 THEN q.existing
                    ELSE IF same # {} THEN comments[CHOOSE i \in same : TRUE].id ELSE 0
           method == IF found # 0 THEN "PATCH" ELSE "POST"
           target == IF found # 0 THEN found ELSE nextId
       IN /\ comments' = IF ~applied THEN comments
                         ELSE IF method = "PATCH"
                         THEN UpdateBody(comments, found, q.commentData.body)
                         ELSE Append(comments, [id |-> nextId, body |-> q.commentData.body,
                                                createdFor |-> q.commentData.identifier])
          /\ nextId' = IF applied /\ method = "POST" THEN nextId + 1 ELSE nextId
          /\ run' = Handled(q, method, applied, target)
    /\ inflight' = inflight \ {q}
    /\ UNCHANGED history
    /\ UNCHANGED <<covVars, itVars>>

\* the API deals with a PATCH or POST in flight: it applies it (applied) or not (it
\* refuses it, or the request never arrives).  The process that sent it is awaiting
\* the answer, or has ended meanwhile (terminated, or its request rejected with an
\* error), and a later invocation may be running by then: a request that has left
\* the process is not withdrawn by its end.
Mutate(q, applied) ==
    /\ q \in inflight
    /\ LET method == IF q.existing # 0 THEN "PATCH" ELSE "POST"
           target == IF q.existing # 0 THEN q.existing ELSE nextId
       IN /\ comments' = IF applied THEN ApplyRequest(comments, nextId, q) ELSE comments
          /\ nextId' = IF applied /\ q.existing = 0 THEN nextId + 1 ELSE nextId
          /\ run' = Handled(q, method, applied, target)
    /\ inflight' = inflight \ {q}
    /\ UNCHANGED history
    /\ UNCHANGED <<covVars, itVars>>

\* the awaited makeGitHubRequest settles.  It resolves (ok) on a 2xx answer whose
\* body parses, which the API gives only for a request it applied; it rejects on
\* any other status, on a body that does not parse and on a request error, and an
\* error can come before the API has dealt with the request as well as after it
\* applied it.  Resolved, main() returns and the process ends with 0; rejected, the
\* catch of postOrUpdateComment calls process.exit(1).
Settle(p, ok) ==
    /\ run[p].pc = "await"
    /\ LET r == run[p]
           n == Len(r.calls)
           done == Exited([r EXCEPT !.calls[n].ok = ok, !.calls[n].rejected = ~ok],
                          IF ok THEN 0 ELSE 1)
       IN /\ ok => (r.calls[n].handled /\ r.calls[n].applied)
          /\ run' = [run EXCEPT ![p] = done]
          /\ history' = Append(history, HistoryEntry(done))
    /\ UNCHANGED <<comments, nextId, inflight>>
    /\ UNCHANGED <<covVars, itVars>>

\* the inputs of a run: a missing environment variable is tried with the plain
\* command line of each report kind
StartInputs ==
    {<<opts, FullEnv>> : opts \in Invocations}
    \cup {<<[NoOptions EXCEPT !.type = Some(ty)], env>> :
             ty \in ValidTypes, env \in Environments}

\* serial invocations: each run started after the previous one exited (its request
\* may still be in flight)
NextSerial ==
    \/ \E in \in StartInputs : Start(1, in[1], in[2])
    \/ \E ok \in BOOLEAN : List(1, ok)
    \/ \E q \in inflight, applied \in BOOLEAN : Mutate(q, applied)
    \/ \E ok \in BOOLEAN : Settle(1, ok)

SpecComment == InitComment /\ [][NextSerial]_vars

\* the command lines of concurrent workflow jobs for one report kind: the coverage
\* report with and without --title, and with an environment variable missing
RaceInputs ==
    {<<[NoOptions EXCEPT !.type = Some(<<"coverage">>), !.title = ti], FullEnv>> :
        ti \in TitleOptions}
    \cup {<<[NoOptions EXCEPT !.type = Some(<<"coverage">>)], env>> : env \in Environments}

\* concurrent invocations: the processes of Procs run main() side by side, their API
\* requests answered in any order
NextConcurrent ==
    \/ \E p \in Procs, in \in RaceInputs : Start(p, in[1], in[2])
    \/ \E p \in Procs, ok \in BOOLEAN : List(p, ok)
    \/ \E q \in inflight, applied \in BOOLEAN : Mutate(q, applied)
    \/ \E p \in Procs, ok \in BOOLEAN : Settle(p, ok)

SpecConcurrent == InitComment /\ [][NextConcurrent]_vars

\* exit status of a process ended by SIGTERM (128 + 15)
Terminated == 143

\* the workflow job is cancelled while main() awaits a request: the process is
\* terminated.  A PATCH or POST that the API applied before that stays applied, and
\* one that was sent and not yet dealt with is still on its way to the API.
Kill(p) ==
    /\ run[p].pc \in {"list", "await"}
    /\ LET done == Exited(run[p], Terminated)
       IN /\ run' = [run EXCEPT ![p] = done]
          /\ history' = Append(history, HistoryEntry(done))
    /\ UNCHANGED <<comments, nextId, inflight>>
    /\ UNCHANGED <<covVars, itVars>>

\* the command lines of a workflow whose jobs can be cancelled: those of the
\* coverage job and the e2e report
CancelInputs == RaceInputs \cup {<<[NoOptions EXCEPT !.type = Some(<<"e2e">>)], FullEnv>>}

\* serial invocations of a workflow whose jobs can be cancelled
NextCancel ==
    \/ \E in \in CancelInputs : Start(1, in[1], in[2])
    \/ \E ok \in BOOLEAN : List(1, ok)
    \/ \E q \in inflight, applied \in BOOLEAN : Mutate(q, applied)
    \/ \E ok \in BOOLEAN : Settle(1, ok)
    \/ Kill(1)

SpecCancel == InitComment /\ [][NextCancel]_vars

\* comments a pull request can hold before a run: a reviewer quoting the title of
\* the coverage report, a reviewer writing the word null, and report comments that
\* carry the coverage identifier in their body (posted with --body)
TitleQuote(id) ==
    [id |-> id, body |-> <<"about the">> \o CoverageTitle, createdFor |-> <<"human">>]
NullWord(id) ==
    [id |-> id, body |-> <<"returns", "null">>, createdFor |-> <<"human">>]
Marked(id) ==
    [id |-> id, body |-> <<"<!--">> \o CoverageIdentifier \o <<"-->", "old report">>,
     createdFor |-> CoverageIdentifier]
QuotingComments ==
    {<<TitleQuote(1)>>, <<NullWord(1)>>, <<TitleQuote(1), Marked(2)>>,
     <<Marked(1), Marked(2)>>, <<NullWord(1), Marked(2)>>}

\* a pull request under discussion before any run of the comment tool
InitQuoting ==
    /\ comments \in QuotingComments
    /\ nextId = Len(comments) + 1
    /\ run = [p \in Procs |-> IdleRun]
    /\ history = <<>>
    /\ inflight = {}
    /\ covFile = "ok"
    /\ coverage = <<>>
    /\ gitOk = TRUE
    /\ diffOutput = <<>>
    /\ onDisk = {}
    /\ mode = [global |-> FALSE, changedFiles |-> FALSE]
    /\ configuredThreshold = DefaultThreshold
    /\ cpc = "exited"
    /\ changedFiles = <<>>
    /\ result = NoResult
    /\ stdout = NoOutput
    /\ covExit = 0
    /\ itr = IdleRunner

SpecQuoting == InitQuoting /\ [][NextSerial]_vars

\* one invocation of the coverage tool, about to run main(); no comment tool runs
InitCoverage ==
    /\ covFile \in {"ok", "missing", "unparseable"}
    /\ coverage \in (IF covFile = "ok" THEN CoverageMaps ELSE {<<>>})
    /\ mode \in [global : BOOLEAN, changedFiles : BOOLEAN]
    /\ gitOk \in (IF mode.changedFiles /\ ~mode.global THEN BOOLEAN ELSE {TRUE})
    /\ diffOutput \in (IF mode.changedFiles /\ ~mode.global THEN DiffOutputs ELSE {<<>>})
    /\ onDisk \in (IF gitOk THEN SUBSET {diffOutput[i] : i \in 1..Len(diffOutput)}
                   ELSE {{diffOutput[i] : i \in 1..Len(diffOutput)}})
    /\ configuredThreshold \in (IF mode.changedFiles /\ ~mode.global
                                THEN ConfiguredThresholds ELSE {DefaultThreshold})
    /\ cpc = "start"
    /\ changedFiles = <<>>
    /\ result = NoResult
    /\ stdout = NoOutput
    /\ covExit = -1
    /\ comments = <<>>
    /\ nextId = 1
    /\ run = [p \in Procs |-> IdleRun]
    /\ history = <<>>
    /\ inflight = {}
    /\ itr = IdleRunner

NextCov ==
    \/ readCoverageFile
    \/ mainGlobal
    \/ mainGetChangedFiles
    \/ mainChangedFiles
    \/ mainUsage

SpecCoverage == InitCoverage /\ [][NextCov]_vars

-----------------------------------------------------------------------------
(* Properties of pr-commenter.js, checked under SpecComment *)

\* the comments created by a run of the report kind that owns identifier
CommentsFor(identifier) ==
    {i \in 1..Len(comments) : comments[i].createdFor = identifier}

IdentifierOf(type) ==
    IF type = <<"coverage">> THEN CoverageIdentifier
    ELSE IF type = <<"e2e">> THEN E2EIdentifier
    ELSE BuildIdentifier

NoRunInFlight == \A p \in Procs : run[p].pc \in {"idle", "exited"}

\* two finished runs of the same report kind, neither given --title, every API call
\* of both answered with success
TwoPlainRunsOfOneKind ==
    /\ NoRunInFlight
    /\ Len(history) = 2
    /\ \A k \in 1..2 : /\ history[k].type \in ValidTypes
                       /\ ~history[k].titled
                       /\ ~history[k].failed
                       /\ history[k].exit = 0
    /\ history[1].type = history[2].type

\* C1: after two serial runs of one report kind without --title, on a pull request
\* that had no comment of that kind, there is exactly one comment of the kind, its
\* body is the second run's body, and the second run issued a PATCH.
C1_IdempotentUpsert ==
    TwoPlainRunsOfOneKind =>
        LET mine == CommentsFor(IdentifierOf(history[2].type))
        IN /\ Cardinality(mine) = 1
           /\ \A i \in mine : comments[i].body = run[1].commentData.body
           /\ history[2].method = "PATCH"

\* C2: after any serial runs whose API calls all succeeded, each identifier has at
\* most one comment, and exactly one when a run of its kind completed.
C2_OneCommentPerIdentifier ==
    (NoRunInFlight /\ \A k \in 1..Len(history) : ~history[k].failed) =>
        \A ty \in ValidTypes :
            /\ Cardinality(CommentsFor(IdentifierOf(ty))) <= 1
            /\ (\E k \in 1..Len(history) : history[k].type = ty /\ history[k].exit = 0)
                   => Cardinality(CommentsFor(IdentifierOf(ty))) = 1

\* C3: in serial runs whose API calls all succeeded, a run never PATCHes a comment
\* that a run of another report kind created.
C3_KindsNeverCollide ==
    \A p \in Procs :
        LET r == run[p]
        IN (r.pc = "exited" /\ r.calls # <<>>
                /\ \A k \in 1..Len(history) : ~history[k].failed) =>
              LET last == r.calls[Len(r.calls)]
              IN (last.method = "PATCH" /\ last.ok) =>
                    \A i \in 1..Len(comments) :
                        (comments[i].id = last.id /\ comments[i].createdFor \in Identifiers)
                            => comments[i].createdFor = r.commentData.identifier

-----------------------------------------------------------------------------
(* Properties of coverage-calculator.js, checked under SpecCoverage *)

ChangedFilesDone == cpc = "exited" /\ stdout.kind = "changed"
GlobalDone == cpc = "exited" /\ stdout.kind = "global"

RECURSIVE SumOver(_, _)
SumOver(f, S) ==
    IF S = {} THEN 0
    ELSE LET x == CHOOSE y \in S : TRUE IN f[x] + SumOver(f, S \ {x})

\* the statement counts of a coverage map, entry by entry
StatementTotal(cov) ==
    SumOver([i \in 1..Len(cov) |-> IF cov[i].hasS THEN Len(cov[i].s) ELSE 0], 1..Len(cov))
StatementCovered(cov) ==
    SumOver([i \in 1..Len(cov) |->
                IF cov[i].hasS
                THEN Cardinality({k \in 1..Len(cov[i].s) : cov[i].s[k] > 0}) ELSE 0],
            1..Len(cov))

InRange(p) == ~p.na /\ 0 <= p.whole * 100 + p.frac /\ p.whole * 100 + p.frac <= 10000

\* C4: with an empty ChangedFileSet the percentage is N/A, the coverage check is not
\* reported as failed, and the report carries the no-files-changed line.
C4_EmptyChangeSetPasses ==
    (ChangedFilesDone /\ changedFiles = <<>>) =>
        /\ stdout.changedCoverage = NA
        /\ ~stdout.checkFailed
        /\ stdout.report.message = "No files changed"

\* C5: the gate passes exactly when the percentage is N/A or at least the threshold.
C5_GateRule ==
    ChangedFilesDone =>
        (~stdout.checkFailed <=>
            (stdout.changedCoverage = NA \/ ParseFloatGE(stdout.changedCoverage, Threshold)))

ScenarioAB ==
    /\ coverage = <<[path |-> Resolve(FileA), hasS |-> TRUE, s |-> Stmts8of10],
                    [path |-> Resolve(FileB), hasS |-> TRUE, s |-> Stmts2of5]>>
    /\ changedFiles = <<FileA>>
    /\ FileA \in onDisk

\* C6: with {A: 8/10, B: 2/5} and ChangedFileSet [A] the aggregate is 80.00, and the
\* gate passes under a configured threshold of 70 and fails under one of 90.
C6_ConfiguredThreshold ==
    (ChangedFilesDone /\ ScenarioAB) =>
        /\ stdout.changedCoverage = Fixed2(8000)
        /\ configuredThreshold = 70 => ~stdout.checkFailed
        /\ configuredThreshold = 90 => stdout.checkFailed

\* C7: the global percentage is covered / total x 100 within [0,100], and it is N/A
\* exactly when the map has no statements.
C7_GlobalPercentage ==
    GlobalDone =>
        LET total == StatementTotal(coverage)
            covered == StatementCovered(coverage)
        IN /\ total = 0 <=> stdout.globalCoverage = NA
           /\ total > 0 => /\ stdout.globalCoverage = ToFixed2(covered, total)
                           /\ InRange(stdout.globalCoverage)

HasEntry(file) == \E i \in 1..Len(coverage) : MatchesEntry(coverage[i], file)

\* the ChangedFileSet without the files that have no CoverageMap entry
MatchedFilesOnly == SelectSeq(changedFiles, HasEntry)

AllOnDisk == \A i \in 1..Len(changedFiles) : changedFiles[i] \in onDisk

\* C8: files without a CoverageMap entry change nothing: the counts and the
\* percentage are those of the aggregation over the matched files alone (stated for
\* changed files that all exist in the working tree).
C8_UnmatchedContributeNothing ==
    (ChangedFilesDone /\ AllOnDisk) =>
        LET alone == calculateChangedFilesCoverage(coverage, MatchedFilesOnly, onDisk)
        IN /\ result.totalLines = alone.totalLines
           /\ result.coveredLines = alone.coveredLines
           /\ result.percentage = alone.percentage

\* C9: a non-empty ChangedFileSet none of whose files has a CoverageMap entry gives
\* N/A, and the gate passes (stated for changed files that exist in the working tree).
C9_NoMatchIsNotApplicable ==
    (ChangedFilesDone /\ AllOnDisk /\ changedFiles # <<>> /\ MatchedFilesOnly = <<>>) =>
        /\ stdout.changedCoverage = NA
        /\ ~stdout.checkFailed

\* file is a suffix of the entry's path, which is neither file itself nor the
\* absolute path of file
ProperSuffix(file, path) == EndsWith(path, file) /\ path # file /\ path # Resolve(file)

\* C10: a changed file whose path is a proper suffix of an entry's path has a per-file
\* line with that entry's counts, and the aggregate includes them (stated for an entry
\* that has statements and is the only entry the file's path matches).
C10_SuffixMatchIncluded ==
    ChangedFilesDone =>
        \A i \in 1..Len(changedFiles), k \in 1..Len(coverage) :
            (/\ ProperSuffix(changedFiles[i], coverage[k].path)
             /\ coverage[k].hasS /\ Len(coverage[k].s) > 0
             /\ \A m \in 1..Len(coverage) :
                   MatchesEntry(coverage[m], changedFiles[i]) => m = k) =>
                /\ \E d \in 1..Len(result.files) :
                      /\ result.files[d].file = changedFiles[i]
                      /\ result.files[d].covered = CoveredCount(coverage[k].s)
                      /\ result.files[d].total = Len(coverage[k].s)
                /\ result.totalLines >= Len(coverage[k].s)
                /\ result.coveredLines >= CoveredCount(coverage[k].s)


(***************************************************************************)
(* pr-commenter: failures, races and the shape of one invocation           *)
(***************************************************************************)

\* the calls of an invocation that makeGitHubRequest rejected
FailedCalls(r) == {k \in 1..Len(r.calls) : r.calls[k].rejected}

\* C11: any failed API call of an invocation, the list-comments call included,
\* aborts the run with exit status 1: the failed call is the last call the
\* invocation makes (no retry, no further call) and the run has exited with 1.
C11_ApiFailureAborts ==
    \A p \in Procs :
        \A k \in FailedCalls(run[p]) :
            /\ k = Len(run[p].calls)
            /\ run[p].pc = "exited"
            /\ run[p].exit = 1

EnvComplete(env) == env.token /\ env.repo /\ env.pr

\* C12: an invocation started with the API token, the owner/repository or the
\* pull-request number missing from the environment has exited with status 1
\* without issuing any API request.
C12_MissingEnvExitsBeforeNetwork ==
    \A p \in Procs :
        (run[p].pc # "idle" /\ ~EnvComplete(run[p].env))
        => /\ run[p].pc = "exited"
           /\ run[p].exit = 1
           /\ run[p].calls = <<>>

\* a run with a valid --type and only PR_NUMBER missing has exited with 1
C12_Witness ==
    \E p \in Procs :
        /\ run[p].pc = "exited"
        /\ run[p].exit = 1
        /\ run[p].opts.type # None
        /\ run[p].opts.type[1] \in ValidTypes
        /\ run[p].env.token /\ run[p].env.repo /\ ~run[p].env.pr
        /\ run[p].calls = <<>>

\* two finished invocations for one identifier whose list-comments requests were
\* both answered, with no comment found, before the create of either was applied
Raced(p, q) ==
    /\ p # q
    /\ run[p].pc = "exited" /\ run[q].pc = "exited"
    /\ run[p].exit = 0 /\ run[q].exit = 0
    /\ run[p].commentData.identifier = run[q].commentData.identifier
    /\ run[p].calls[1].ok /\ run[q].calls[1].ok
    /\ run[p].existing = 0 /\ run[q].existing = 0
    /\ run[p].calls[1].at <= run[q].calls[2].at
    /\ run[q].calls[1].at <= run[p].calls[2].at

\* C15: two concurrent invocations for the same pull request and identifier that both
\* complete their list-comments request before either create is applied, both seeing
\* no existing comment, both issue a POST, and the pull request ends with two
\* comments for that identifier, one created by each.
C15_ConcurrentRunsDuplicate ==
    \A p, q \in Procs :
        Raced(p, q)
        => /\ run[p].calls[2].method = "POST" /\ run[q].calls[2].method = "POST"
           /\ run[p].calls[2].id # run[q].calls[2].id
           /\ \A r \in {p, q} :
                 \E i \in CommentsFor(run[r].commentData.identifier) :
                     comments[i].id = run[r].calls[2].id
           /\ Cardinality(CommentsFor(run[p].commentData.identifier)) >= 2

\* the interleaving exists: two coverage runs given the same --title (which a later
\* serial run would have found) raced, and the pull request has two coverage comments
C15_Witness ==
    /\ Raced(1, 2)
    /\ run[1].opts.type = Some(<<"coverage">>)
    /\ run[1].opts.title = Some(CoverageTitle)
    /\ run[2].opts.title = Some(CoverageTitle)
    /\ run[1].before = run[2].before
    /\ run[1].calls[1].at = run[2].calls[1].at
    /\ Cardinality(CommentsFor(CoverageIdentifier)) = 2

MutatingCalls(r) == {k \in 1..Len(r.calls) : r.calls[k].method # "GET"}

\* C16: the comment tool never deletes.  In every step of any interleaving of
\* invocations the comment list does not get shorter, every comment already there
\* keeps its external id (and its origin) whatever happens to its body, and the
\* only methods of the requests issued are GET, POST and PATCH.
C16_NeverDeletes ==
    [][/\ Len(comments') >= Len(comments)
       /\ \A i \in 1..Len(comments) :
             /\ comments'[i].id = comments[i].id
             /\ comments'[i].createdFor = comments[i].createdFor
       /\ \A p \in Procs :
             \A k \in MutatingCalls(run'[p]) :
                 run'[p].calls[k].method \in {"POST", "PATCH"}]_vars

\* a comment the tool created was later updated by a PATCH of another invocation
\* and is still listed under the id it was created with
C16_Witness ==
    \E p \in Procs :
        /\ run[p].pc = "exited"
        /\ run[p].exit = 0
        /\ Len(run[p].calls) = 2
        /\ run[p].calls[2].method = "PATCH"
        /\ \E i \in 1..Len(comments) :
              /\ comments[i].id = run[p].calls[2].id
              /\ comments[i].createdFor \in Identifiers
              /\ comments[i].body = run[p].commentData.body
              /\ comments[i].id = i

RequestApplied(r) == Len(r.calls) = 2 /\ r.calls[2].applied

\* the invocation was terminated and, when that happened, the API had not applied
\* its PATCH or POST
TerminatedBeforeApplied(r) ==
    /\ r.pc = "exited"
    /\ r.exit = Terminated
    /\ (RequestApplied(r) => r.calls[2].late)

\* C17: cancellation is all-or-nothing.  After an invocation was terminated at any
\* point before the API applied its PATCH or POST, the comment list is exactly the
\* list the invocation started with; after it was terminated once the request had
\* been applied, the list is the starting list with that one mutation.
C17_CancelAllOrNothing ==
    LET r == run[1]
    IN /\ TerminatedBeforeApplied(r) => comments = r.before
       /\ (r.pc = "exited" /\ r.exit = Terminated /\ ~TerminatedBeforeApplied(r))
          => comments = ApplyRequest(r.before, r.calls[2].id, r)

\* C17, amended: cancellation leaves no partial state and rolls nothing back.  In
\* every step, the comment list changes only by the API applying, in full, one PATCH
\* or POST that is in flight; a request gets in flight only when an invocation that
\* has had its list answered sends it, so an invocation terminated before that never
\* changes the list; and the end of a process, terminated or not, neither changes
\* the list nor withdraws a request: one sent before the termination may be applied
\* after it, also while a later invocation runs, and one applied stays applied.
C17_CancelAllOrNothingAmended ==
    [][/\ comments' # comments
          => \E q \in inflight :
                /\ q \notin inflight'
                /\ comments' = ApplyRequest(comments, nextId, q)
       /\ \A q \in inflight' \ inflight :
             /\ run[q.p].pc = "list" /\ run[q.p].inv = q.inv
             /\ run'[q.p].pc = "await" /\ run'[q.p].inv = q.inv
       /\ \A p \in Procs :
             (run[p].pc \in {"list", "await"} /\ run'[p].pc = "exited")
             => (comments' = comments /\ inflight' = inflight)
       /\ \A p \in Procs :
             (run[p].pc = "exited" /\ run[p].exit = Terminated /\ run[p].calls = <<>>)
             => ~Pending(run[p])]_vars

\* a first invocation was terminated after it sent its POST; the next invocation
\* started and had its list answered, with no comment; then the API applied the
\* POST of the first: the list is no longer the one the running invocation started
\* with, and its own request is still in flight
C17_Witness ==
    /\ Len(history) = 1
    /\ history[1].exit = Terminated
    /\ history[1].method = "POST"
    /\ run[1].pc = "await"
    /\ run[1].inv = 2
    /\ run[1].before = <<>>
    /\ run[1].existing = 0
    /\ Pending(run[1])
    /\ Len(comments) = 1

\* C18: the API calls of one invocation are strictly sequential.  The first call is
\* the list-comments GET, and a mutating call is issued only after that GET was
\* answered; no invocation issues more than one mutating call, and an invocation
\* that ended with exit status 0 issued exactly one, a PATCH or a POST.
C18_SequentialCalls ==
    \A p \in Procs :
        LET r == run[p]
        IN /\ r.pc \in {"idle", "list"} => r.calls = <<>>
           /\ r.pc = "await" => Len(r.calls) = 2
           /\ r.calls # <<>> => r.calls[1].method = "GET"
           /\ \A k \in MutatingCalls(r) :
                 /\ k = 2
                 /\ r.calls[1].at <= r.calls[k].at
                 /\ r.calls[k].method \in {"PATCH", "POST"}
           /\ Cardinality(MutatingCalls(r)) <= 1
           /\ (r.pc = "exited" /\ r.exit = 0)
              => /\ Len(r.calls) = 2
                 /\ Cardinality(MutatingCalls(r)) = 1

\* one invocation ended with 0 after GET then POST, the other after GET then PATCH
C18_Witness ==
    /\ \A p \in Procs : run[p].pc = "exited" /\ run[p].exit = 0
    /\ \E p, q \in Procs :
          /\ run[p].calls[1].method = "GET" /\ run[p].calls[2].method = "POST"
          /\ run[q].calls[1].method = "GET" /\ run[q].calls[2].method = "PATCH"

\* the invocation of process 1 ended with a PATCH that the API applied
Patched(r) ==
    /\ r.pc = "exited"
    /\ Len(r.calls) = 2
    /\ r.calls[2].method = "PATCH"
    /\ r.calls[2].applied

\* C22: the comment tool only ever PATCHes a comment whose body contains the
\* identifier of the report kind: the comment an invocation replaced contained,
\* when the invocation started, the identifier it was upserting.
C22_OnlyIdentifierCommentsPatched ==
    Patched(run[1])
    => \A i \in 1..Len(run[1].before) :
          run[1].before[i].id = run[1].calls[2].id
          => Includes(run[1].before[i].body, run[1].commentData.identifier)

\* the positions of the comments that contain the identifier
IdentifierMatches(cs, identifier) ==
    {i \in 1..Len(cs) : Includes(cs[i].body, identifier)}

Least(S) == CHOOSE i \in S : \A j \in S : i <= j

\* C23: an upsert whose requests all succeed updates the first comment, in list
\* order, that contains the identifier and leaves every other comment, matching or
\* not, with its body and id unchanged.  (Stated for pull requests on which at
\* least one comment contains the identifier.)
C23_FirstMatchUpdated ==
    LET r == run[1]
        m == IdentifierMatches(r.before, r.commentData.identifier)
    IN (r.pc = "exited" /\ r.exit = 0 /\ r.calls[1].ok /\ m # {})
       => /\ r.calls[2].method = "PATCH"
          /\ r.calls[2].id = r.before[Least(m)].id
          /\ comments = [r.before EXCEPT ![Least(m)].body = r.commentData.body]

(***************************************************************************)
(* coverage-calculator: failures of its inputs and the report               *)
(***************************************************************************)

\* C13: when the coverage file does not exist the coverage tool prints nothing (no
\* global percentage, no CHANGED_FILES_COVERAGE, CHANGED_FILES_DETAILS or
\* COVERAGE_CHECK_FAILED), never starts the diff step, and exits with status 1.
C13_MissingFileNoReport ==
    covFile = "missing"
    => /\ cpc \in {"start", "exited"}
       /\ stdout = NoOutput
       /\ changedFiles = <<>>
       /\ result = NoResult
       /\ cpc = "exited" => covExit = 1

\* the tool was asked for the changed-files report of a non-empty diff, the file
\* was missing, and it has exited with 1
C13_Witness ==
    /\ covFile = "missing"
    /\ mode.changedFiles /\ ~mode.global
    /\ gitOk /\ diffOutput # <<>>
    /\ cpc = "exited"
    /\ covExit = 1

\* C14: when the diff step fails, getChangedFiles returns the empty list and the
\* coverage tool still prints its changed-files report (the no-files-changed one)
\* and ends with exit status 0.
C14_DiffFailureNotFatal ==
    (covFile = "ok" /\ ~gitOk)
    => /\ cpc \in {"resolved", "exited"} => changedFiles = <<>>
       /\ cpc = "exited"
          => /\ covExit = 0
             /\ stdout.kind = "changed"
             /\ stdout.changedCoverage = NA
             /\ stdout.report = generateMarkdownReport(result, DefaultThreshold)
             /\ stdout.report.message = "No files changed"
             /\ stdout.report.details = <<>>

\* the diff step failed although source files had changed, and the run ended with 0
\* after printing the report
C14_Witness ==
    /\ covFile = "ok"
    /\ ~gitOk
    /\ getChangedFiles(TRUE, diffOutput) # <<>>
    /\ cpc = "exited"
    /\ covExit = 0
    /\ stdout.kind = "changed"

\* C20: the report printed for the changed files always shows the overall
\* percentage, the required threshold and the pass/fail status; when the result has
\* per-file entries it lists one line for each, in their order, and otherwise it
\* shows the no-files-changed line in place of the list.  (Stated for runs
\* configured with the default threshold whose changed files all exist on disk.)
C20_ReportContents ==
    (ChangedFilesDone /\ configuredThreshold = DefaultThreshold /\ AllOnDisk)
    => LET rep == stdout.report
       IN /\ rep.heading = result.percentage
          /\ rep.actual = result.percentage
          /\ rep.required = configuredThreshold
          /\ rep.status \in {"Passed", "Failed"}
          /\ result.files # <<>> => (rep.details = result.files /\ rep.message = "")
          /\ result.files = <<>>
             => (rep.details = <<>> /\ rep.message = "No files changed")

\* C21: an invocation of the coverage tool that gives neither mode flag (--global,
\* --changed-files) ends with exit status 1 and computes no coverage.  (Stated for
\* a readable coverage file, so that the exit status is the usage branch's.)
C21_MissingModeFlagExits1 ==
    (covFile = "ok" /\ ~mode.global /\ ~mode.changedFiles /\ cpc = "exited")
    => /\ covExit = 1
       /\ stdout.kind \notin {"global", "changed"}
       /\ result = NoResult

\* positions of the entries whose path is the absolute path of file
ExactEntries(cov, file) == {k \in 1..Len(cov) : cov[k].path = Resolve(file)}

\* C24: exact match takes precedence over suffix match.  For a single changed file
\* (on disk) whose absolute path is the path of a CoverageMap entry, the totals of
\* the result are that entry's counts, wherever the entry stands in the CoverageMap
\* and whatever other entries end with the file's path.  (Stated for maps whose
\* entries all have statements.)
C24_ExactMatchPrecedence ==
    (/\ ChangedFilesDone /\ Len(changedFiles) = 1 /\ AllOnDisk
     /\ \A j \in 1..Len(coverage) : coverage[j].hasS /\ Len(coverage[j].s) > 0)
    => \A k \in ExactEntries(coverage, changedFiles[1]) :
          /\ result.totalLines = Len(coverage[k].s)
          /\ result.coveredLines = CoveredCount(coverage[k].s)

PassesFilters(f) == f[Len(f)] \in FilePatterns /\ StartsWith(f, <<SourceDir>>)

Elements(seq) == {seq[i] : i \in 1..Len(seq)}

NoDuplicates(seq) == \A i, j \in 1..Len(seq) : seq[i] = seq[j] => i = j

\* sub lists the elements of seq it contains in the order seq has them
InOrderOf(sub, seq) ==
    /\ Elements(sub) \subseteq Elements(seq)
    /\ \A i, j \in 1..Len(sub) :
          i < j => \E a, b \in 1..Len(seq) : a < b /\ seq[a] = sub[i] /\ seq[b] = sub[j]

\* C25: the ChangedFileSet holds exactly the lines of the diff output that pass the
\* extension filter and the source-directory filter, in the diff's order and without
\* duplicates; the per-file entries of the result, and the per-file lines of the
\* report, follow that same order.
C25_DiffOrderKept ==
    (covFile = "ok" /\ gitOk /\ cpc \in {"resolved", "exited"}
     /\ mode.changedFiles /\ ~mode.global)
    => /\ Elements(changedFiles) = {f \in Elements(diffOutput) : PassesFilters(f)}
       /\ NoDuplicates(changedFiles)
       /\ InOrderOf(changedFiles, diffOutput)
       /\ cpc = "exited"
          => /\ NoDuplicates(result.files)
             /\ InOrderOf([i \in 1..Len(result.files) |-> result.files[i].file],
                          changedFiles)
             /\ stdout.report.details = result.files

\* the diff listed src/b.ts before src/a.ts, both were kept in that order and both
\* have a per-file entry, b before a
C25_Witness ==
    /\ cpc = "exited"
    /\ diffOutput = <<FileB, FileA>>
    /\ changedFiles = <<FileB, FileA>>
    /\ Len(result.files) = 2
    /\ result.files[1].file = FileB
    /\ result.files[2].file = FileA
    /\ stdout.report.details = result.files

\* how often file is accounted for: per-file entries plus no-coverage-data reports
TimesAccounted(res, file) ==
    Cardinality({i \in 1..Len(res.files) : res.files[i].file = file})
    + Cardinality({i \in 1..Len(res.noData) : res.noData[i] = file})

\* C26: every path of a non-empty ChangedFileSet is accounted for exactly once: it
\* has a per-file entry, and then a CoverageMap entry matches it, or it is reported
\* as having no coverage data; none is dropped, a file that is no longer on disk and
\* a matched file with zero statements included.
C26_EveryFileAccounted ==
    (ChangedFilesDone /\ changedFiles # <<>>)
    => \A i \in 1..Len(changedFiles) :
          /\ TimesAccounted(result, changedFiles[i]) = 1
          /\ (\E j \in 1..Len(result.files) : result.files[j].file = changedFiles[i])
             => HasEntry(changedFiles[i])

\* the coverage file is there but is not a CoverageMap: it does not parse, or an
\* entry of it lacks the statement counts
Malformed ==
    \/ covFile = "unparseable"
    \/ covFile = "ok" /\ \E i \in 1..Len(coverage) : ~coverage[i].hasS

\* C27: a coverage file that exists but does not have the expected schema makes the
\* coverage tool exit with status 1 in --global and in --changed-files mode, with
\* no percentage computed or printed.
C27_MalformedFileExits1 ==
    (Malformed /\ cpc = "exited" /\ (mode.global \/ mode.changedFiles))
    => /\ covExit = 1
       /\ stdout = NoOutput
       /\ result = NoResult

\* the statements of the entry that were executed at least once
HitStatements(s) == {k \in 1..Len(s) : s[k] > 0}

\* C28: in the result of calculateChangedFilesCoverage, 0 <= coveredLines <=
\* totalLines; the two are the sums of covered and total over the per-file entries;
\* each per-file entry has total > 0 and covered <= total; and the covered count of
\* an entry is the number of statements of the matched CoverageMap entry whose hit
\* count is greater than 0, its total their number.
C28_ResultInvariants ==
    ChangedFilesDone
    => LET n == Len(result.files)
       IN /\ 0 <= result.coveredLines
          /\ result.coveredLines <= result.totalLines
          /\ result.totalLines = SumOver([i \in 1..n |-> result.files[i].total], 1..n)
          /\ result.coveredLines = SumOver([i \in 1..n |-> result.files[i].covered], 1..n)
          /\ \A i \in 1..n :
                LET e == result.files[i]
                    k == FindEntry(coverage, e.file)
                IN /\ e.total > 0
                   /\ 0 <= e.covered /\ e.covered <= e.total
                   /\ k # 0
                   /\ e.total = Len(coverage[k].s)
                   /\ e.covered = Cardinality(HitStatements(coverage[k].s))

\* two changed files with per-file entries, one of them with some statements hit
\* and some not, and totals that are the sums over both
C28_Witness ==
    /\ ChangedFilesDone
    /\ Len(result.files) = 2
    /\ \E i \in 1..2 : /\ 0 < result.files[i].covered
                         /\ result.files[i].covered < result.files[i].total
    /\ result.totalLines = result.files[1].total + result.files[2].total
    /\ result.coveredLines = result.files[1].covered + result.files[2].covered
    /\ result.coveredLines < result.totalLines

\* C29: in --changed-files mode the report shows the passed status exactly when
\* COVERAGE_CHECK_FAILED=false is printed, for every result, the percentage N/A
\* included.
C29_ReportAgreesWithGate ==
    ChangedFilesDone
    => /\ stdout.report.status \in {"Passed", "Failed"}
       /\ stdout.report.status = "Passed" <=> ~stdout.checkFailed

\* no file changed: the percentage is N/A, the report says Failed and the gate flag
\* is COVERAGE_CHECK_FAILED=true
C29_Witness ==
    /\ ChangedFilesDone
    /\ result.percentage = NA
    /\ stdout.changedCoverage = NA
    /\ stdout.report.status = "Failed"
    /\ stdout.checkFailed

-----------------------------------------------------------------------------
(* integration-test-runner.js *)

\* the command lines and environments of one invocation
RunnerInputs ==
    {[IdleRunner EXCEPT !.args = a, !.ci = c, !.dbUrl = u, !.find = f, !.probeOk = pr,
                        !.child = ch] :
        a \in BOOLEAN, c \in BOOLEAN, u \in {"none", "valid", "invalid"},
        f \in {"found", "none", "error"}, pr \in BOOLEAN,
        ch \in {"code0", "code1", "signal", "error"}}

\* one invocation of the test runner about to run; no other tool runs
InitRunner ==
    /\ itr \in RunnerInputs
    /\ comments = <<>>
    /\ nextId = 1
    /\ run = [p \in Procs |-> IdleRun]
    /\ history = <<>>
    /\ inflight = {}
    /\ covFile = "ok"
    /\ coverage = <<>>
    /\ gitOk = TRUE
    /\ diffOutput = <<>>
    /\ onDisk = {}
    /\ mode = [global |-> FALSE, changedFiles |-> FALSE]
    /\ configuredThreshold = DefaultThreshold
    /\ cpc = "exited"
    /\ changedFiles = <<>>
    /\ result = NoResult
    /\ stdout = NoOutput
    /\ covExit = 0

RunnerExited(status) == [itr EXCEPT !.pc = "exited", !.exit = status]

\* node loads the script.  The block comment that opens the file (line 3) ends at the
\* first "*/", which is inside "*\*/*\.acceptance.ts" on line 13; what follows on
\* that line is not JavaScript, so node stops with a SyntaxError and status 1 before
\* any statement of the script runs: no usage text, no search, no probe, no test.
loadScript ==
    /\ itr.pc = "start"
    /\ itr' = RunnerExited(1)
    /\ UNCHANGED <<covVars, prVars>>

NextRunner == loadScript

SpecRunner == InitRunner /\ [][NextRunner]_vars

NoFilesFound == itr.searched /\ itr.testFiles = 0
ClosedWith0 == itr.started /\ itr.child = "code0"
\* an invocation that is to run the tests (arguments given or CI set) where test
\* files exist and the database URL parses or is left to its default
OnlyProbeCanFail == (itr.args \/ itr.ci) /\ itr.find = "found" /\ itr.dbUrl # "invalid"

\* C30: the runner exits with 0 only when no test files were found or the spawned
\* test process closed with code 0; a test process that did not close with 0, a
\* failure to start it, or an unparseable database URL always ends in exit status 1;
\* a failed readiness probe alone never keeps the tests from starting: a finished
\* invocation that had test files and a parseable URL has started the tests even
\* though pg_isready failed.
C30_RunnerExitCodes ==
    itr.pc = "exited"
    => /\ itr.exit = 0 => (NoFilesFound \/ ClosedWith0)
       /\ (itr.started /\ itr.child # "code0") => itr.exit = 1
       /\ itr.dbUrl = "invalid" => itr.exit = 1
       /\ (OnlyProbeCanFail /\ ~itr.probeOk) => itr.started

====
